---------------------------- MODULE Spec2Model ----------------------------
(***************************************************************************)
(* Toll-zone transition engine of the Toll App: the location-update        *)
(* handler (app.py), the TollRecord table (models.py) and the geocoding,   *)
(* zone-membership, distance and fare helpers (toll_logic.py).             *)
(*                                                                         *)
(* Conventions.                                                            *)
(*  - A Python value that may be None is a sequence of length <= 1:        *)
(*    None is <<>> and the value v is <<v>>.                               *)
(*  - A Python str is a sequence of one-character strings.                 *)
(*  - Distances are integers in hundredths of a km, amounts in hundredths  *)
(*    of a currency unit, provider distances in metres.                    *)
(*  - datetime.utcnow() is the variable now, read after it advanced by     *)
(*    one tick: every request gets its own server time.                    *)
(***************************************************************************)
EXTENDS Integers, Sequences, FiniteSets, TLC

VARIABLES
    gmaps,                  \* toll_logic.gmaps: TRUE iff the client was built
    TOLL_ZONE_IDENTIFIERS,  \* toll_logic.TOLL_ZONE_IDENTIFIERS
    db,                     \* committed rows of TollRecord, row i has id i
    now,                    \* server clock
    last,                   \* what the last request did (inputs, calls, reply)
    zin,                    \* input of a stand-alone zone-membership check
    zout,                   \* its result: None until it ran
    fin,                    \* input of a stand-alone fare calculation
    fout,                   \* its result: None until it ran
    procs,                  \* requests in progress, when they interleave
    mails                   \* bills handed to send_toll_bill_email

vars == <<gmaps, TOLL_ZONE_IDENTIFIERS, db, now, last, zin, zout, fin, fout,
          procs, mails>>

----------------------------------------------------------------------------
(* Bounds of the model *)

\* number of requests (clock ticks) in one behaviour
MaxTime == 3

\* longest label of the stand-alone zone-membership check
MaxLabelLen == 3

Users == {1, 2}
Lats == {10, 11}
Lons == {20}

----------------------------------------------------------------------------
(* Python values *)

None == <<>>
Some(v) == <<v>>
Val(x) == x[1]

Str_P == <<"P">>
Str_Q == <<"Q">>
Str_PQ == <<"P", "Q">>

ADDRESS_UNAVAILABLE ==
    <<"A","d","d","r","e","s","s"," ","U","n","a","v","a","i","l","a","b","l","e">>

IsWhitespace(c) == c = " "

RECURSIVE lstrip(_)
lstrip(s) == IF s # <<>> /\ IsWhitespace(Head(s)) THEN lstrip(Tail(s)) ELSE s

RECURSIVE rstrip(_)
rstrip(s) ==
    IF s # <<>> /\ IsWhitespace(s[Len(s)])
    THEN rstrip(SubSeq(s, 1, Len(s) - 1))
    ELSE s

\* str.strip()
strip(s) == rstrip(lstrip(s))

\* the match of sub at position i of s, compared character by character
RECURSIVE MatchAt(_, _, _, _)
MatchAt(sub, s, i, k) ==
    IF k > Len(sub) THEN TRUE
    ELSE IF s[i + k - 1] # sub[k] THEN FALSE
    ELSE MatchAt(sub, s, i, k + 1)

\* Python's `sub in s` on str: scan the start positions left to right
RECURSIVE FindFrom(_, _, _)
FindFrom(sub, s, i) ==
    IF i + Len(sub) - 1 > Len(s) THEN FALSE
    ELSE IF MatchAt(sub, s, i, 1) THEN TRUE
    ELSE FindFrom(sub, s, i + 1)

str_contains(sub, s) == FindFrom(sub, s, 1)

\* truthiness of an Optional[str]: None and "" are falsy
Truthy(x) == x # None /\ Val(x) # <<>>

\* x or default, for an Optional[str]
OrDefault(x, d) == IF Truthy(x) THEN Val(x) ELSE d

----------------------------------------------------------------------------
(* toll_logic.reverse_geocode *)

\* What gmaps.reverse_geocode does on one call: it raises, or returns a list
\* of results of which only the first one's formatted_address is read.
GeoRaise(e) == [exc |-> e, results |-> <<>>]
GeoList(rs) == [exc |-> "none", results |-> rs]
GeoResult(fa) == [formatted_address |-> fa]

GeoLabels == {<<" ", "P">>, Str_Q}

GeoFailures ==
    {GeoRaise("ApiError"), GeoRaise("Exception"), GeoList(<<>>),
     GeoList(<<GeoResult(None)>>), GeoList(<<GeoResult(Some(<<>>))>>)}

GeoResponses ==
    GeoFailures \cup {GeoList(<<GeoResult(Some(l))>>) : l \in GeoLabels}

\* returns <<address, error>>
reverse_geocode(gm, resp) ==
    IF ~gm THEN <<None, Some("Geocoding Service Unavailable")>>
    ELSE IF resp.exc = "ApiError" THEN <<None, Some("API Error")>>
    ELSE IF resp.exc # "none" THEN <<None, Some("Network or Server Error")>>
    ELSE IF resp.results # <<>>
         THEN LET formatted_address == resp.results[1].formatted_address
              IN  IF Truthy(formatted_address)
                  THEN <<Some(strip(Val(formatted_address))), None>>
                  ELSE <<None, Some("Address format error")>>
         ELSE <<None, Some("No address found")>>

----------------------------------------------------------------------------
(* toll_logic.is_in_toll_zone *)

\* the loop leaving after its first identifier, matched or not
partial_match_first(address, order, i) ==
    i <= Len(order) /\ order[i] # <<>> /\ str_contains(order[i], address)

\* the partial-match loop over the identifiers in iteration order `order`,
\* stopping at the first match
RECURSIVE partial_match(_, _, _)
partial_match(address, order, i) ==
    IF i > Len(order) THEN FALSE
    ELSE IF order[i] # <<>> /\ str_contains(order[i], address) THEN TRUE
    ELSE partial_match(address, order, i + 1)

\* lines 207-230: exact match, then the lenient check
zone_match(address, ids, order) ==
    LET a == strip(address)
        in_zone == a \in ids
    IN  IF ~in_zone THEN partial_match(a, order, 1) ELSE in_zone

\* the iteration orders of a set: its enumerations without repetition
Orders(S) ==
    {o \in [1..Cardinality(S) -> S] : \A i, j \in 1..Cardinality(S) :
                                          i # j => o[i] # o[j]}

\* a geocoding error taken for "in the zone"
is_in_toll_zone_failclosed(ids, order, geo) ==
    IF ids = {} THEN FALSE
    ELSE IF geo[2] # None THEN TRUE
    ELSE IF ~Truthy(geo[1]) THEN FALSE
    ELSE zone_match(Val(geo[1]), ids, order)

\* no identifiers loaded: every resolved address taken for a toll zone
is_in_toll_zone_noids(ids, order, geo) ==
    IF ids = {} THEN geo[2] = None /\ Truthy(geo[1])
    ELSE IF geo[2] # None THEN FALSE
    ELSE IF ~Truthy(geo[1]) THEN FALSE
    ELSE zone_match(Val(geo[1]), ids, order)

\* geo is <<address, error>> as returned by reverse_geocode
is_in_toll_zone(ids, order, geo) ==
    IF ids = {} THEN FALSE
    ELSE IF geo[2] # None THEN FALSE
    ELSE IF ~Truthy(geo[1]) THEN FALSE
    ELSE zone_match(Val(geo[1]), ids, order)

----------------------------------------------------------------------------
(* toll_logic.calc_dist and toll_logic.calculate_toll *)

\* What gmaps.distance_matrix does on one call.
DistRaise(e) == [exc |-> e, status |-> "n/a", element |-> "n/a",
                 has_value |-> FALSE, numeric |-> FALSE, value |-> 0]
DistReply(st, el, hv, nu, v) ==
    [exc |-> "none", status |-> st, element |-> el,
     has_value |-> hv, numeric |-> nu, value |-> v]

\* metres returned by the provider; none ends in 5, so that the rounding of
\* value / 1000.0 to 2 places never sits on a binary-float tie
Metres == {12338}

DistFailures ==
    {DistRaise("ApiError"), DistRaise("Exception"),
     DistReply("INVALID_REQUEST", "n/a", FALSE, FALSE, 0),
     DistReply("OK", "ZERO_RESULTS", FALSE, FALSE, 0),
     DistReply("OK", "OK", FALSE, FALSE, 0),
     DistReply("OK", "OK", TRUE, FALSE, 0)}

DistResponses ==
    DistFailures \cup {DistReply("OK", "OK", TRUE, TRUE, m) : m \in Metres}

\* round(n / d) to the nearest integer, n >= 0, d > 0 (no ties arise here)
RoundDiv(n, d) == (2 * n + d) \div (2 * d)

\* what a call stands for when its exception propagates to the caller
Raised == <<"exception", "propagates">>

\* calc_dist without its `except Exception` handlers
calc_dist_unguarded(gm, resp) ==
    IF ~gm THEN None
    ELSE IF resp.exc # "none" THEN Raised
    ELSE IF resp.status = "OK" /\ resp.element = "OK"
         THEN IF resp.has_value
              THEN IF resp.numeric
                   THEN Some((2 * resp.value + 10) \div 20)
                   ELSE None
              ELSE None
         ELSE None

\* returns Optional[hundredths of a km]
calc_dist(gm, resp) ==
    IF ~gm THEN None
    ELSE IF resp.exc # "none" THEN None
    ELSE IF resp.status = "OK" /\ resp.element = "OK"
         THEN IF resp.has_value
              THEN IF resp.numeric
                   THEN Some(RoundDiv(resp.value, 10))
                   ELSE None
              ELSE None
         ELSE None

\* the fare without the distance_km < 0 test
calculate_toll_nofloor(distance_km) ==
    IF distance_km = None THEN 0
    ELSE (2 * Val(distance_km) * 300 + 100) \div 200

\* the fare charged on the magnitude of the distance
calculate_toll_abs(distance_km) ==
    IF distance_km = None THEN 0
    ELSE IF Val(distance_km) < 0 THEN (2 * (0 - Val(distance_km)) * 300 + 100) \div 200
    ELSE (2 * Val(distance_km) * 300 + 100) \div 200

\* the fare truncated to whole currency units
calculate_toll_truncated(distance_km) ==
    IF distance_km = None \/ Val(distance_km) < 0 THEN 0
    ELSE ((Val(distance_km) * 300) \div 10000) * 100

\* TOLL_RATE_PER_KM = 3.0, in hundredths of a currency unit per km
TOLL_RATE_PER_KM == 300

calculate_toll(distance_km) ==
    IF distance_km = None \/ Val(distance_km) < 0 THEN 0
    ELSE RoundDiv(Val(distance_km) * TOLL_RATE_PER_KM, 100)

----------------------------------------------------------------------------
(* models.TollRecord *)

\* TollRecord(user_id=..., entry_lat=..., entry_lon=..., entry_address=...,
\* entry_timestamp=..., is_entry_only=True) once inserted: the columns not
\* given are NULL, paid takes its column default
TollRecord(user_id, lat, lon, address, timestamp) ==
    [user_id |-> user_id,
     entry_lat |-> Some(lat), entry_lon |-> Some(lon),
     entry_address |-> Some(address), entry_timestamp |-> Some(timestamp),
     exit_lat |-> None, exit_lon |-> None,
     exit_address |-> None, exit_timestamp |-> None,
     distance_km |-> None, amount_due |-> None,
     paid |-> FALSE, payment_timestamp |-> None,
     is_entry_only |-> TRUE]

\* A row whose entry coordinate is (partly) NULL: entry_lat and entry_lon are
\* nullable columns, and the exit branch tests for such rows.
CorruptRecord(user_id, lat, lon) ==
    [TollRecord(user_id, 10, 20, Str_P, 0) EXCEPT !.entry_lat = lat,
                                                  !.entry_lon = lon]

Ids(d) == 1..Len(d)

OpenIds(d, user_id) ==
    {i \in Ids(d) : d[i].user_id = user_id /\ d[i].is_entry_only}

\* ORDER BY entry_timestamp DESC: NULL sorts below every timestamp
SortKey(r) == IF r.entry_timestamp = None THEN -1 ELSE Val(r.entry_timestamp)

\* the lookup with the is_entry_only filter inverted
get_active_toll_entry_closed(d, user_id) ==
    LET closed == {i \in Ids(d) : d[i].user_id = user_id /\ ~d[i].is_entry_only}
    IN  IF closed = {} THEN {None} ELSE {Some(i) : i \in closed}

\* the lookup without the user_id filter
get_active_toll_entry_anyuser(d, user_id) ==
    LET open == {i \in Ids(d) : d[i].is_entry_only}
    IN  IF open = {} THEN {None}
        ELSE {Some(i) : i \in {j \in open :
                     \A k \in open : SortKey(d[k]) <= SortKey(d[j])}}

\* app.get_active_toll_entry without a database error: the rows .first() may
\* return (several only when the newest open rows tie), as Some(id); None when
\* the user has no open row
get_active_toll_entry(d, user_id) ==
    IF OpenIds(d, user_id) = {} THEN {None}
    ELSE {Some(i) : i \in {j \in OpenIds(d, user_id) :
                 \A k \in OpenIds(d, user_id) : SortKey(d[k]) <= SortKey(d[j])}}

\* app.get_active_toll_entry, lines 89-94: the query, or, when the query
\* raises, the `except Exception` that logs and returns None
lookup_active_entry(d, user_id, lookup_ok) ==
    IF lookup_ok THEN get_active_toll_entry(d, user_id) ELSE {None}

----------------------------------------------------------------------------
(* The record of one request *)

Request(op, user, lat, lon, ts) ==
    [op |-> op, user |-> user, lat |-> lat, lon |-> lon, ts |-> ts,
     class_address |-> None, \* address returned by the classifying geocode
     class_failed |-> FALSE, \* the classifying geocode returned an error
     in_zone |-> FALSE,    \* current_location_is_toll
     active |-> None,      \* active_entry.id
     route |-> None,       \* <<origin, destination>> given to calc_dist
     distance |-> None,    \* what calc_dist returned
     mail |-> FALSE,       \* send_toll_bill_email was called
     commit |-> "none",    \* db.session.commit(): "none", "ok" or "failed"
     lookup |-> "none",    \* the open-row query: "none", "ok" or "failed"
     outcome |-> "none",
     toll_id |-> 0]

----------------------------------------------------------------------------
(* app.api_update_location *)

\* the new row with latitude and longitude exchanged
EnterZone_swapped(d, user_id, lat, lon, geo, timestamp) ==
    Append(d, TollRecord(user_id, lon, lat,
                         OrDefault(geo[1], ADDRESS_UNAVAILABLE), timestamp))

\* lines 412-418: the new row, added and committed
EnterZone(d, user_id, lat, lon, geo, timestamp) ==
    Append(d, TollRecord(user_id, lat, lon,
                         OrDefault(geo[1], ADDRESS_UNAVAILABLE), timestamp))

\* the exit storing calc_dist's result as it came, None included
ExitZone_raw(d, id, lat, lon, geo, timestamp, distance_km, amount_due) ==
    [d EXCEPT ![id] =
        [@ EXCEPT !.exit_lat = Some(lat),
                  !.exit_lon = Some(lon),
                  !.exit_address = Some(OrDefault(geo[1], ADDRESS_UNAVAILABLE)),
                  !.exit_timestamp = Some(timestamp),
                  !.distance_km = distance_km,
                  !.amount_due = Some(amount_due),
                  !.paid = FALSE,
                  !.is_entry_only = FALSE]]

\* lines 446-455: the open row finalized and committed
ExitZone(d, id, lat, lon, geo, timestamp, distance_km, amount_due) ==
    [d EXCEPT ![id] =
        [@ EXCEPT !.exit_lat = Some(lat),
                  !.exit_lon = Some(lon),
                  !.exit_address = Some(OrDefault(geo[1], ADDRESS_UNAVAILABLE)),
                  !.exit_timestamp = Some(timestamp),
                  !.distance_km =
                      Some(IF distance_km # None THEN Val(distance_km) ELSE 0),
                  !.amount_due = Some(amount_due),
                  !.paid = FALSE,
                  !.is_entry_only = FALSE]]

\* lines 439-440: origin_coords and destination_coords as Python holds them
RouteRequest(entry, lat, lon) ==
    <<<<entry.entry_lat, entry.entry_lon>>, <<Some(lat), Some(lon)>>>>

\* the entry test without `not active_entry`
IsEntering_always(current_location_is_toll, active_entry) ==
    current_location_is_toll

\* line 404
IsEntering(current_location_is_toll, active_entry) ==
    current_location_is_toll /\ active_entry = None

\* line 423
IsExiting(current_location_is_toll, active_entry) ==
    ~current_location_is_toll /\ active_entry # None

\* the guard testing the latitude only
EntryCoordsMissing_latonly(entry) == entry.entry_lat = None

\* the guard with `and` for `or`
EntryCoordsMissing_both(entry) ==
    entry.entry_lat = None /\ entry.entry_lon = None

\* line 427
EntryCoordsMissing(entry) == entry.entry_lat = None \/ entry.entry_lon = None

\* lines 377-388: the body is no JSON object with a numeric latitude and
\* longitude; answered 400, whoever sent it, before anything is read or
\* written
bad_request ==
    /\ last' = [Request("api_update_location", 0, 0, 0, now)
                   EXCEPT !.outcome = "bad_request"]
    /\ UNCHANGED <<gmaps, TOLL_ZONE_IDENTIFIERS, db, now, zin, zout, fin, fout,
                   procs, mails>>

\* db.session.commit() keeping the pending changes when it fails
Commit_norollback(d_old, d_new, ok) == d_new

\* db.session.commit() (lines 418, 455): the pending changes are stored, or
\* the commit raises and line 498 rolls them back
Commit(d_old, d_new, ok) == IF ok THEN d_new ELSE d_old

\* lines 389-502 for a well-formed sample (lat, lon) of `user`; commit_ok
\* tells whether the database accepts the commit of this request, lookup_ok
\* whether its open-row query runs without raising
update_location(user, lat, lon, commit_ok, lookup_ok) ==
    /\ now < MaxTime
    /\ now' = now + 1
    /\ \E class_geo \in {reverse_geocode(gmaps, g) : g \in GeoResponses},
          order \in Orders(TOLL_ZONE_IDENTIFIERS),
          active_entry \in lookup_active_entry(db, user, lookup_ok) :
        LET timestamp == now + 1
            called == TOLL_ZONE_IDENTIFIERS # {}
            current_location_is_toll ==
                is_in_toll_zone(TOLL_ZONE_IDENTIFIERS, order, class_geo)
            req == [Request("api_update_location", user, lat, lon, timestamp)
                       EXCEPT !.class_address =
                                  IF called THEN class_geo[1] ELSE None,
                              !.class_failed = called /\ class_geo[2] # None,
                              !.in_zone = current_location_is_toll,
                              !.lookup =
                                  IF lookup_ok THEN "ok" ELSE "failed",
                              !.active = active_entry]
        IN  IF IsEntering(current_location_is_toll, active_entry)
            THEN \E geo \in {reverse_geocode(gmaps, g) : g \in GeoResponses} :
                   /\ db' = Commit(db, EnterZone(db, user, lat, lon, geo,
                                                 timestamp), commit_ok)
                   /\ last' = [req EXCEPT
                                 !.commit =
                                     IF commit_ok THEN "ok" ELSE "failed",
                                 !.outcome =
                                     IF commit_ok THEN "entered" ELSE "error"]
            ELSE IF IsExiting(current_location_is_toll, active_entry)
            THEN LET entry == db[Val(active_entry)]
                 IN  IF EntryCoordsMissing(entry)
                     THEN /\ db' = db
                          /\ last' = [req EXCEPT !.outcome = "exit_blocked"]
                     ELSE \E geo \in {reverse_geocode(gmaps, g) :
                                                      g \in GeoResponses},
                             distance_km \in {calc_dist(gmaps, r) :
                                                      r \in DistResponses} :
                            LET route == RouteRequest(entry, lat, lon)
                                amount_due == calculate_toll(distance_km)
                            IN  IF distance_km = Raised
                                THEN /\ db' = db
                                     /\ last' = [req EXCEPT
                                                   !.route = Some(route),
                                                   !.outcome = "error"]
                                ELSE /\ db' = Commit(db,
                                               ExitZone(db, Val(active_entry),
                                                   lat, lon, geo, timestamp,
                                                   distance_km, amount_due),
                                               commit_ok)
                                     /\ last' = [req EXCEPT
                                           !.route = Some(route),
                                           !.distance = distance_km,
                                           !.commit = IF commit_ok THEN "ok"
                                                      ELSE "failed",
                                           !.mail = commit_ok,
                                           !.outcome = IF commit_ok
                                                       THEN "exited"
                                                       ELSE "error"]
            ELSE /\ db' = db
                 /\ last' = [req EXCEPT !.outcome = "no_change"]
    /\ UNCHANGED <<gmaps, TOLL_ZONE_IDENTIFIERS, zin, zout, fin, fout, procs,
                   mails>>

\* the request served by a database that answers its query and accepts its
\* commit
api_update_location(user, lat, lon) ==
    update_location(user, lat, lon, TRUE, TRUE)

----------------------------------------------------------------------------
(* app.pay_bill *)

\* filter_by(id=toll_id, user_id=current_user.id, paid=False).first()
UnpaidRecord(d, user_id, toll_id) ==
    IF toll_id \in Ids(d) /\ d[toll_id].user_id = user_id /\ ~d[toll_id].paid
    THEN Some(toll_id) ELSE None

\* the payment also clearing the amount of the settled bill
MarkPaid_settled(d, toll_id, timestamp) ==
    [d EXCEPT ![toll_id] = [@ EXCEPT !.paid = TRUE,
                                     !.payment_timestamp = Some(timestamp),
                                     !.amount_due = Some(0)]]

MarkPaid(d, toll_id, timestamp) ==
    [d EXCEPT ![toll_id] = [@ EXCEPT !.paid = TRUE,
                                     !.payment_timestamp = Some(timestamp)]]

pay_bill(user, toll_id) ==
    /\ now < MaxTime
    /\ now' = now + 1
    /\ LET toll_record == UnpaidRecord(db, user, toll_id)
           req == [Request("pay_bill", user, 0, 0, now + 1)
                      EXCEPT !.toll_id = toll_id]
       IN  IF toll_record = None
           THEN /\ db' = db
                /\ last' = [req EXCEPT !.outcome = "not_payable"]
           ELSE /\ db' = MarkPaid(db, toll_id, now + 1)
                /\ last' = [req EXCEPT !.outcome = "paid"]
    /\ UNCHANGED <<gmaps, TOLL_ZONE_IDENTIFIERS, zin, zout, fin, fout, procs,
                   mails>>

----------------------------------------------------------------------------
(* The system: requests served one after another *)

\* final_toll_data.csv as pd.read_csv finds it: absent (FileNotFoundError),
\* empty (EmptyDataError), or a table that has the identifier column or not;
\* a cell of the column is NaN (None) or a string
CsvFile(kind, has_column, cells) ==
    [kind |-> kind, has_column |-> has_column, cells |-> cells]

CsvFiles ==
    {CsvFile("absent", FALSE, <<>>),
     CsvFile("empty", FALSE, <<>>),
     CsvFile("table", FALSE, <<>>),
     CsvFile("table", TRUE, <<>>),
     CsvFile("table", TRUE, <<None, Some(<<" ">>), Some(<<>>)>>),
     CsvFile("table", TRUE, <<Some(<<" ", "P">>), None, Some(Str_P)>>)}

\* toll_logic.py 56-85: dropna, astype(str), strip, drop "", into a set;
\* every failure leaves the set as initialised, empty
load_identifiers(file) ==
    IF file.kind # "table" THEN {}
    ELSE IF ~file.has_column THEN {}
    ELSE {strip(Val(file.cells[i])) :
             i \in {j \in 1..Len(file.cells) : file.cells[j] # None}}
         \ {<<>>}

\* the identifier sets the loader can leave: stripped, non-empty strings
IdentifierSets == {load_identifiers(f) : f \in CsvFiles}

InitialTables ==
    {<<>>,
     <<CorruptRecord(1, None, Some(20))>>,
     <<CorruptRecord(1, Some(10), None)>>,
     <<CorruptRecord(1, None, None)>>}

NoZoneCheck == [label |-> <<>>, order |-> <<>>]

Init ==
    /\ gmaps \in BOOLEAN
    /\ TOLL_ZONE_IDENTIFIERS \in IdentifierSets
    /\ db \in InitialTables
    /\ now = 0
    /\ last = Request("start", 0, 0, 0, 0)
    /\ zin = NoZoneCheck
    /\ zout = None
    /\ fin = None
    /\ fout = None
    /\ procs = <<>>
    /\ mails = <<>>

Next ==
    \/ \E user \in Users, lat \in Lats, lon \in Lons :
          api_update_location(user, lat, lon)
    \/ bad_request
    \/ \E user \in Users, toll_id \in 1..(Len(db) + 1) :
          pay_bill(user, toll_id)

Spec == Init /\ [][Next]_vars

----------------------------------------------------------------------------
(* is_in_toll_zone on its own: every short label against every small *)
(* identifier set in every iteration order                           *)

Chars == {"P", "Q", " "}

LabelsUpTo(n) == UNION {[1..k -> Chars] : k \in 0..n}

ZoneIdSets == SUBSET {Str_P, Str_PQ, <<"Q", "P">>}

InitZone ==
    /\ gmaps = TRUE
    /\ TOLL_ZONE_IDENTIFIERS \in ZoneIdSets
    /\ db = <<>>
    /\ now = 0
    /\ last = Request("start", 0, 0, 0, 0)
    /\ zin \in {[label |-> l, order |-> o] :
                   l \in LabelsUpTo(MaxLabelLen) \ {<<>>},
                   o \in Orders(TOLL_ZONE_IDENTIFIERS)}
    /\ zout = None
    /\ fin = None
    /\ fout = None
    /\ procs = <<>>
    /\ mails = <<>>

\* the geocoder resolves the coordinate to zin.label; is_in_toll_zone decides
zone_check ==
    /\ zout = None
    /\ zout' = Some(is_in_toll_zone(TOLL_ZONE_IDENTIFIERS, zin.order,
                        reverse_geocode(gmaps,
                            GeoList(<<GeoResult(Some(zin.label))>>))))
    /\ UNCHANGED <<gmaps, TOLL_ZONE_IDENTIFIERS, db, now, last, zin, fin, fout,
                   procs, mails>>

NextZone == zone_check

SpecZone == InitZone /\ [][NextZone]_vars

----------------------------------------------------------------------------
(* The location handler over a database whose commits can fail *)

InitFault ==
    /\ gmaps = TRUE
    /\ TOLL_ZONE_IDENTIFIERS = {Str_P}
    /\ db = <<>>
    /\ now = 0
    /\ last = Request("start", 0, 0, 0, 0)
    /\ zin = NoZoneCheck
    /\ zout = None
    /\ fin = None
    /\ fout = None
    /\ procs = <<>>
    /\ mails = <<>>

NextFault ==
    \E user \in Users, lat \in Lats, lon \in Lons, commit_ok \in BOOLEAN :
        update_location(user, lat, lon, commit_ok, TRUE)

SpecFault == InitFault /\ [][NextFault]_vars

----------------------------------------------------------------------------
(* The location handler over a database whose open-row query can fail *)

InitLookup ==
    /\ gmaps = TRUE
    /\ TOLL_ZONE_IDENTIFIERS = {Str_P}
    /\ db = <<>>
    /\ now = 0
    /\ last = Request("start", 0, 0, 0, 0)
    /\ zin = NoZoneCheck
    /\ zout = None
    /\ fin = None
    /\ fout = None
    /\ procs = <<>>
    /\ mails = <<>>

NextLookup ==
    \E user \in Users, lat \in Lats, lon \in Lons, lookup_ok \in BOOLEAN :
        update_location(user, lat, lon, TRUE, lookup_ok)

SpecLookup == InitLookup /\ [][NextLookup]_vars

----------------------------------------------------------------------------
(* Two requests to /api/update_location served at the same time: each      *)
(* worker runs the handler in its own session, and the handler takes no    *)
(* lock, so the workers interleave between their database statements.      *)
(* A step is what one worker does up to and including its next statement   *)
(* on the database or its mail attempt.                                     *)

Procs == {1, 2}

\* the ways lines 459-487 end: the mail went out, send_toll_bill_email
\* returned False, something raised and was caught at 483, or the user has
\* no address and nothing was sent
MailResults == {"sent", "returned_false", "raised", "no_recipient"}

IdleProc ==
    [pc |-> "idle", user |-> 0, lat |-> 0, lon |-> 0, ts |-> 0,
     in_zone |-> FALSE, active |-> None, outcome |-> "none"]

\* the exit branch mailing the bill before it commits the row
ExitSteps_mailfirst == <<"mail", "finalize">>

\* the exit branch in program order: lines 446-455, then lines 459-487
ExitSteps == <<"finalize", "mail">>

NextPc(pc) == IF pc = ExitSteps[1] THEN ExitSteps[2] ELSE "done"

\* the table when the two requests arrive: empty, or user 1 inside a zone
ConcTables == {<<>>, <<TollRecord(1, 10, 20, <<" ", "P">>, 0)>>}

InitConc ==
    /\ gmaps = TRUE
    /\ TOLL_ZONE_IDENTIFIERS = {Str_P}
    /\ db \in ConcTables
    /\ now = 0
    /\ last = Request("start", 0, 0, 0, 0)
    /\ zin = NoZoneCheck
    /\ zout = None
    /\ fin = None
    /\ fout = None
    /\ procs = [p \in Procs |-> IdleProc]
    /\ mails = <<>>

\* lines 377-398: the sample is parsed, the server time taken and the
\* location classified; no row is read yet
conc_receive(p, user, lat, lon) ==
    /\ procs[p].pc = "idle"
    /\ now' = now + 1
    /\ \E class_geo \in {reverse_geocode(gmaps, g) : g \in GeoResponses},
          order \in Orders(TOLL_ZONE_IDENTIFIERS) :
          procs' = [procs EXCEPT ![p] =
                       [@ EXCEPT !.pc = "lookup", !.user = user, !.lat = lat,
                                 !.lon = lon, !.ts = now + 1,
                                 !.in_zone = is_in_toll_zone(
                                     TOLL_ZONE_IDENTIFIERS, order, class_geo)]]
    /\ UNCHANGED <<gmaps, TOLL_ZONE_IDENTIFIERS, db, last, zin, zout, fin,
                   fout, mails>>

\* lines 401-431 and 489-493: the SELECT of the open row, and the branch
\* taken on what it returned
conc_lookup(p) ==
    /\ procs[p].pc = "lookup"
    /\ \E active_entry \in get_active_toll_entry(db, procs[p].user) :
          procs' = [procs EXCEPT ![p] =
              IF IsEntering(procs[p].in_zone, active_entry)
              THEN [@ EXCEPT !.pc = "enter", !.active = active_entry]
              ELSE IF IsExiting(procs[p].in_zone, active_entry)
              THEN IF EntryCoordsMissing(db[Val(active_entry)])
                   THEN [@ EXCEPT !.pc = "done", !.active = active_entry,
                                  !.outcome = "exit_blocked"]
                   ELSE [@ EXCEPT !.pc = ExitSteps[1],
                                  !.active = active_entry]
              ELSE [@ EXCEPT !.pc = "done", !.active = active_entry,
                             !.outcome = "no_change"]]
    /\ UNCHANGED <<gmaps, TOLL_ZONE_IDENTIFIERS, db, now, last, zin, zout,
                   fin, fout, mails>>

\* lines 407-421: the INSERT of the new row, committed
conc_enter(p) ==
    /\ procs[p].pc = "enter"
    /\ \E geo \in {reverse_geocode(gmaps, g) : g \in GeoResponses} :
          db' = EnterZone(db, procs[p].user, procs[p].lat, procs[p].lon, geo,
                          procs[p].ts)
    /\ procs' = [procs EXCEPT ![p] =
                    [@ EXCEPT !.pc = "done", !.outcome = "entered"]]
    /\ UNCHANGED <<gmaps, TOLL_ZONE_IDENTIFIERS, now, last, zin, zout, fin,
                   fout, mails>>

\* lines 434-455: the UPDATE of the row the lookup loaded, committed; the
\* entry coordinates it uses never change once the row exists
conc_finalize(p) ==
    /\ procs[p].pc = "finalize"
    /\ \E geo \in {reverse_geocode(gmaps, g) : g \in GeoResponses},
          distance_km \in {calc_dist(gmaps, r) : r \in DistResponses} :
          db' = ExitZone(db, Val(procs[p].active), procs[p].lat, procs[p].lon,
                         geo, procs[p].ts, distance_km,
                         calculate_toll(distance_km))
    /\ procs' = [procs EXCEPT ![p] =
                    [@ EXCEPT !.pc = NextPc("finalize"),
                              !.outcome = IF NextPc("finalize") = "done"
                                          THEN "exited" ELSE @]]
    /\ UNCHANGED <<gmaps, TOLL_ZONE_IDENTIFIERS, now, last, zin, zout, fin,
                   fout, mails>>

\* lines 459-487: the bill notification for the row, however it ends
conc_mail(p) ==
    /\ procs[p].pc = "mail"
    /\ \E result \in MailResults :
          mails' = Append(mails, [proc |-> p, toll_id |-> Val(procs[p].active),
                                  result |-> result])
    /\ procs' = [procs EXCEPT ![p] =
                    [@ EXCEPT !.pc = NextPc("mail"),
                              !.outcome = IF NextPc("mail") = "done"
                                          THEN "exited" ELSE @]]
    /\ UNCHANGED <<gmaps, TOLL_ZONE_IDENTIFIERS, db, now, last, zin, zout,
                   fin, fout>>

NextConc ==
    \E p \in Procs :
        \/ \E user \in Users, lat \in Lats, lon \in Lons :
              conc_receive(p, user, lat, lon)
        \/ conc_lookup(p)
        \/ conc_enter(p)
        \/ conc_finalize(p)
        \/ conc_mail(p)

SpecConc == InitConc /\ [][NextConc]_vars

----------------------------------------------------------------------------
(* calculate_toll on its own: a pair of distances, each absent or a number *)
(* of hundredths of a km, negative ones included                           *)

MaxDistance == 10

Distances == {None} \cup {Some(d) : d \in (0 - MaxDistance)..MaxDistance}

InitFare ==
    /\ gmaps = TRUE
    /\ TOLL_ZONE_IDENTIFIERS = {}
    /\ db = <<>>
    /\ now = 0
    /\ last = Request("start", 0, 0, 0, 0)
    /\ zin = NoZoneCheck
    /\ zout = None
    /\ fin \in Distances \X Distances
    /\ fout = None
    /\ procs = <<>>
    /\ mails = <<>>

\* calculate_toll applied to both distances of the pair
fare_check ==
    /\ fout = None
    /\ fout' = <<calculate_toll(fin[1]), calculate_toll(fin[2])>>
    /\ UNCHANGED <<gmaps, TOLL_ZONE_IDENTIFIERS, db, now, last, zin, zout, fin,
                   procs, mails>>

NextFare == fare_check

SpecFare == InitFare /\ [][NextFare]_vars

----------------------------------------------------------------------------
(* Properties *)

\* the request just served is a well-formed location sample
Sampled(req) == req.op = "api_update_location" /\ req.outcome # "bad_request"

ClosedIds(d, user_id) ==
    {i \in Ids(d) : d[i].user_id = user_id /\ ~d[i].is_entry_only}

\* C1: whatever samples were processed one after another, every subject has
\* at most one TollRecord with is_entry_only = true.
C1_AtMostOneOpen == \A u \in Users : Cardinality(OpenIds(db, u)) <= 1

\* a subject re-entered after a completed trip: one closed and one open row
C1_Witness ==
    \E u \in Users : /\ Cardinality(OpenIds(db, u)) = 1
                     /\ ClosedIds(db, u) # {}
                     /\ last.outcome = "entered"
                     /\ last.user = u

\* C2: an in-zone sample of a subject with no open row appends exactly one
\* row of that subject: entry coordinate and time are the sample's, the row
\* is open and unpaid, exit fields, distance and amount are unset, and the
\* subject is INSIDE afterwards.
C2_EntryCreatesRecord ==
    [][(Sampled(last') /\ last'.in_zone /\ OpenIds(db, last'.user) = {}) =>
          /\ Len(db') = Len(db) + 1
          /\ SubSeq(db', 1, Len(db)) = db
          /\ LET r == db'[Len(db')]
             IN  /\ r.user_id = last'.user
                 /\ r.entry_lat = Some(last'.lat)
                 /\ r.entry_lon = Some(last'.lon)
                 /\ r.entry_timestamp = Some(last'.ts)
                 /\ last'.ts = now'
                 /\ r.is_entry_only
                 /\ ~r.paid
                 /\ r.exit_lat = None /\ r.exit_lon = None
                 /\ r.exit_address = None /\ r.exit_timestamp = None
                 /\ r.distance_km = None /\ r.amount_due = None
          /\ OpenIds(db', last'.user) = {Len(db')}]_vars

C2_Witness ==
    /\ last.outcome = "entered"
    /\ OpenIds(db, last.user) = {Len(db)}
    /\ Len(db) >= 2

\* C3: a not-in-zone sample of a subject whose open row has its entry
\* coordinate closes that row: exit coordinate and time are the sample's,
\* the estimator was asked for (stored entry coordinate -> sample
\* coordinate), distance is what it returned (0.0 if nothing), amount is
\* calculate_toll of it (12.34 km gives 37.02), the row is closed and unpaid,
\* nothing else changes, and the subject is OUTSIDE afterwards.
C3_ExitClosesRecord ==
    [][\A i \in Ids(db) :
         (/\ Sampled(last') /\ ~last'.in_zone
          /\ OpenIds(db, last'.user) = {i}
          /\ db[i].entry_lat # None /\ db[i].entry_lon # None) =>
            /\ last'.route = Some(<<<<db[i].entry_lat, db[i].entry_lon>>,
                                    <<Some(last'.lat), Some(last'.lon)>>>>)
            /\ db' = [db EXCEPT ![i] =
                  [@ EXCEPT !.exit_lat = Some(last'.lat),
                            !.exit_lon = Some(last'.lon),
                            !.exit_address = db'[i].exit_address,
                            !.exit_timestamp = Some(last'.ts),
                            !.distance_km =
                                IF last'.distance = None THEN Some(0)
                                ELSE last'.distance,
                            !.amount_due = Some(calculate_toll(last'.distance)),
                            !.paid = FALSE,
                            !.is_entry_only = FALSE]]
            /\ (last'.distance = Some(1234) => db'[i].amount_due = Some(3702))
            /\ db'[i].exit_address # None
            /\ OpenIds(db', last'.user) = {}]_vars

\* a trip closed with the estimator's 12.34 km, entered and left at
\* different coordinates
C3_Witness ==
    /\ last.outcome = "exited"
    /\ last.distance = Some(1234)
    /\ db[Val(last.active)].entry_lat # db[Val(last.active)].exit_lat
    /\ db[Val(last.active)].amount_due = Some(3702)

\* C4: an in-zone sample of a subject that has an open row changes no row
\* and adds none (so any run of such samples leaves the entry fields alone).
C4_InZoneWhileInsideIsNoOp ==
    [][(Sampled(last') /\ last'.in_zone /\ OpenIds(db, last'.user) # {}) =>
          db' = db]_vars

\* an in-zone sample at another coordinate than the open row's entry
C4_Witness ==
    /\ Sampled(last) /\ last.in_zone /\ last.active # None
    /\ last.outcome = "no_change"
    /\ db[Val(last.active)].entry_lat # Some(last.lat)
    /\ db[Val(last.active)].is_entry_only

\* C5: a closed row stays closed, and its entry fields, exit fields,
\* distance and amount never change again under any later request; only
\* paid and payment_timestamp may.
C5_ClosedIsFinal ==
    [][\A i \in Ids(db) :
         ~db[i].is_entry_only =>
            /\ i \in Ids(db')
            /\ ~db'[i].is_entry_only
            /\ db'[i] = [db[i] EXCEPT
                           !.paid = db'[i].paid,
                           !.payment_timestamp = db'[i].payment_timestamp]]_vars

\* a closed row paid after its exit
C5_Witness ==
    \E i \in Ids(db) :
        /\ ~db[i].is_entry_only
        /\ db[i].paid
        /\ db[i].exit_timestamp # None
        /\ db[i].payment_timestamp # None
        /\ Val(db[i].payment_timestamp) > Val(db[i].exit_timestamp)
        /\ last.outcome = "paid"

\* C6: a not-in-zone sample of a subject whose open row lacks its entry
\* latitude or longitude writes nothing: the row stays open, no exit field,
\* distance or amount is set, no bill is mailed, the subject stays INSIDE.
C6_ExitBlocked ==
    [][\A i \in Ids(db) :
         (/\ Sampled(last') /\ ~last'.in_zone
          /\ OpenIds(db, last'.user) = {i}
          /\ (db[i].entry_lat = None \/ db[i].entry_lon = None)) =>
            /\ db' = db
            /\ db'[i].is_entry_only
            /\ db'[i].exit_lat = None /\ db'[i].exit_lon = None
            /\ db'[i].exit_address = None /\ db'[i].exit_timestamp = None
            /\ db'[i].distance_km = None /\ db'[i].amount_due = None
            /\ ~last'.mail
            /\ last'.route = None
            /\ last'.outcome = "exit_blocked"
            /\ OpenIds(db', last'.user) = {i}]_vars

\* blocked on a row that lacks only one of the two coordinates
C6_Witness ==
    /\ last.outcome = "exit_blocked"
    /\ last.active # None
    /\ db[Val(last.active)].is_entry_only
    /\ (db[Val(last.active)].entry_lat = None) #
       (db[Val(last.active)].entry_lon = None)

\* C7: when the estimator returns no distance for a not-in-zone sample of a
\* subject whose open row has its entry coordinate, the row is closed all
\* the same, with distance 0.0 and amount 0.0, unpaid, exit fields set.
C7_EstimatorFailureStillExits ==
    [][\A i \in Ids(db) :
         (/\ Sampled(last') /\ ~last'.in_zone
          /\ OpenIds(db, last'.user) = {i}
          /\ db[i].entry_lat # None /\ db[i].entry_lon # None
          /\ last'.distance = None) =>
            /\ last'.outcome = "exited"
            /\ last'.route # None
            /\ ~db'[i].is_entry_only
            /\ ~db'[i].paid
            /\ db'[i].exit_lat = Some(last'.lat)
            /\ db'[i].exit_lon = Some(last'.lon)
            /\ db'[i].exit_address # None
            /\ db'[i].exit_timestamp = Some(last'.ts)
            /\ db'[i].distance_km = Some(0)
            /\ db'[i].amount_due = Some(0)]_vars

\* an exit whose distance request was made and came back empty
C7_Witness ==
    /\ last.outcome = "exited"
    /\ gmaps
    /\ last.route # None
    /\ last.distance = None
    /\ db[Val(last.active)].distance_km = Some(0)
    /\ db[Val(last.active)].amount_due = Some(0)

\* C8: a sample whose classifying reverse geocode failed (no client, no
\* result, no label, API or transport error) is classified not-in-zone, and
\* if its subject had no open row the table is unchanged.
C8_GeocodeFailureIsNotInZone ==
    [][(Sampled(last') /\ last'.class_failed) =>
          /\ ~last'.in_zone
          /\ last'.class_address = None
          /\ (OpenIds(db, last'.user) = {} =>
                 db' = db /\ OpenIds(db', last'.user) = {})]_vars

\* the geocoder was there, identifiers were loaded, and the call failed
C8_Witness ==
    /\ Sampled(last)
    /\ last.class_failed
    /\ gmaps
    /\ TOLL_ZONE_IDENTIFIERS # {}
    /\ OpenIds(db, last.user) = {}
    /\ last.outcome = "no_change"

\* C9: on entry the stored entry label is the resolved label the zone
\* decision was made on; the placeholder is stored only if resolving the
\* sample failed.
C9_EntryLabelIsDecisionLabel ==
    [][(Sampled(last') /\ last'.in_zone /\ OpenIds(db, last'.user) = {}) =>
          /\ Len(db') = Len(db) + 1
          /\ db'[Len(db')].entry_address = last'.class_address
          /\ (db'[Len(db')].entry_address = Some(ADDRESS_UNAVAILABLE) =>
                 last'.class_failed)]_vars

\* s without its leading and trailing blanks, stated by positions
Trimmed(s) ==
    LET solid == {i \in 1..Len(s) : s[i] # " "}
    IN  IF solid = {} THEN <<>>
        ELSE SubSeq(s, CHOOSE a \in solid : \A i \in solid : a <= i,
                       CHOOSE b \in solid : \A i \in solid : i <= b)

IsSubstring(z, t) ==
    \E i \in 1..(Len(t) - Len(z) + 1) : SubSeq(t, i, i + Len(z) - 1) = z

\* C10: with a non-empty identifier set and a resolved label, the result is
\* true exactly if the trimmed label is an identifier or a non-empty
\* identifier occurs in it, whatever the iteration order of the set.
C10_ZoneMembership ==
    (zout # None /\ TOLL_ZONE_IDENTIFIERS # {}) =>
        (Val(zout) <=>
            \/ Trimmed(zin.label) \in TOLL_ZONE_IDENTIFIERS
            \/ \E z \in TOLL_ZONE_IDENTIFIERS :
                   z # <<>> /\ IsSubstring(z, Trimmed(zin.label)))

\* a padded label matched by the second identifier tried, and by no equality
C10_Witness ==
    /\ zout = Some(TRUE)
    /\ Len(zin.order) >= 2
    /\ Trimmed(zin.label) # zin.label
    /\ Trimmed(zin.label) \notin TOLL_ZONE_IDENTIFIERS
    /\ ~IsSubstring(zin.order[1], Trimmed(zin.label))

\* C11: with no identifier loaded every sample is classified not-in-zone,
\* whatever the coordinate and the geocoder do, and no request adds a row:
\* a table that starts empty stays empty.
C11_EmptySetNeverTolls ==
    [][TOLL_ZONE_IDENTIFIERS = {} =>
          /\ Len(db') = Len(db)
          /\ (Sampled(last') => ~last'.in_zone /\ last'.outcome # "entered")
          /\ (db = <<>> => db' = <<>>)]_vars

\* samples were processed with a working geocoder and nothing was recorded
C11_Witness ==
    /\ TOLL_ZONE_IDENTIFIERS = {}
    /\ gmaps
    /\ Sampled(last)
    /\ now >= 2
    /\ db = <<>>

\* a row is whole: open with no exit field set, or closed with all of them
WholeRecord(r) ==
    IF r.is_entry_only
    THEN /\ r.exit_lat = None /\ r.exit_lon = None /\ r.exit_address = None
         /\ r.exit_timestamp = None /\ r.distance_km = None
         /\ r.amount_due = None
    ELSE /\ r.exit_lat # None /\ r.exit_lon # None /\ r.exit_address # None
         /\ r.exit_timestamp # None /\ r.distance_km # None
         /\ r.amount_due # None

\* C12: the bill notification is attempted only after the row is committed
\* closed, and however the attempt ends (the mail goes out, the send returns
\* false, it raises, the recipient is absent) the row stays closed with its
\* fields as committed and the request still ends as a successful exit.
C12_MailAfterCommit ==
    [][Len(mails') > Len(mails) =>
          LET m == mails'[Len(mails')]
          IN  /\ ~db[m.toll_id].is_entry_only
              /\ WholeRecord(db[m.toll_id])
              /\ db' = db
              /\ procs'[m.proc].pc = "done"
              /\ procs'[m.proc].outcome = "exited"]_vars

\* a notification that raised, its row closed and its request done
C12_Witness ==
    \E k \in 1..Len(mails) :
        /\ mails[k].result = "raised"
        /\ ~db[mails[k].toll_id].is_entry_only
        /\ procs[mails[k].proc].outcome = "exited"

\* C13: when the commit of an entry creation or of an exit finalization
\* fails, the change is rolled back (every row is as it was before the
\* request), no bill notification is attempted and the request reports an
\* error.
C13_CommitFailureRollsBack ==
    [][last'.commit = "failed" =>
          /\ db' = db
          /\ ~last'.mail
          /\ last'.outcome = "error"]_vars

\* the commit of an exit finalization failed and the row is still open
C13_Witness ==
    /\ last.commit = "failed"
    /\ last.active # None
    /\ last.route # None
    /\ db[Val(last.active)].is_entry_only
    /\ db[Val(last.active)].exit_timestamp = None

\* C14: every well-formed sample is processed to completion with a definite
\* outcome (no change, entered, exited, exit blocked) whatever the geocoder
\* and the distance estimator do: their failures never abort the request
\* and never leave a row half-updated.
C14_DefiniteOutcome ==
    /\ Sampled(last) =>
           last.outcome \in {"no_change", "entered", "exited", "exit_blocked"}
    /\ \A i \in Ids(db) : WholeRecord(db[i])

\* the classifying geocode, the exit geocode and the estimator all failed
\* and the row was closed all the same
C14_Witness ==
    /\ Sampled(last)
    /\ last.outcome = "exited"
    /\ last.class_failed
    /\ last.distance = None
    /\ db[Val(last.active)].exit_address = Some(ADDRESS_UNAVAILABLE)
    /\ WholeRecord(db[Val(last.active)])

\* C15: calculate_toll is total: an absent or negative distance gives 0.0,
\* a distance d >= 0 gives d x 3.0 rounded to two places; with d in
\* hundredths of a km and the fare in hundredths of a currency unit that is
\* the integer nearest to 3 * d.
C15_FareIsTotal ==
    fout # None =>
        \A k \in 1..2 :
            IF fin[k] = None \/ Val(fin[k]) < 0
            THEN fout[k] = 0
            ELSE fout[k] = 3 * Val(fin[k])

\* an absent distance and a distance of 0.07 km: fares 0.00 and 0.21
C15_Witness ==
    /\ fout # None
    /\ fin = <<None, Some(7)>>
    /\ fout = <<0, 21>>

\* C16: the fare is monotone: for distances d1 < d2 with d2 >= 0 the fare
\* of d1 is at most the fare of d2.
C16_FareMonotone ==
    (/\ fout # None
     /\ fin[1] # None
     /\ fin[2] # None
     /\ Val(fin[1]) < Val(fin[2])
     /\ Val(fin[2]) >= 0) => fout[1] <= fout[2]

\* a negative distance against a shorter positive one
C16_Witness ==
    /\ fout # None
    /\ fin = <<Some(-5), Some(2)>>
    /\ fout[1] <= fout[2]

\* C17: two requests of the same subject that is outside (each found no open
\* row), both classified in-zone, leave at most one open row of the subject
\* however their steps interleave.
C17_ConcurrentEntryOneOpen ==
    \A p, q \in Procs :
        (/\ p # q
         /\ procs[p].pc = "done" /\ procs[q].pc = "done"
         /\ procs[p].user = procs[q].user
         /\ procs[p].in_zone /\ procs[q].in_zone
         /\ procs[p].active = None /\ procs[q].active = None)
        => Cardinality(OpenIds(db, procs[p].user)) <= 1

\* C18: two requests of the same subject that is inside, both classified
\* not-in-zone: the exit fields of the row are written once and at most one
\* bill notification is attempted for it.
C18_ConcurrentExitOnce ==
    \A i \in Ids(db) :
        /\ Cardinality({p \in Procs : /\ procs[p].outcome = "exited"
                                      /\ procs[p].active = Some(i)}) <= 1
        /\ Cardinality({k \in 1..Len(mails) :
                           /\ mails[k].toll_id = i
                           /\ mails[k].result # "no_recipient"}) <= 1

\* the rows of a subject, with their ids
RowsOf(d, user_id) ==
    {<<i, d[i]>> : i \in {j \in Ids(d) : d[j].user_id = user_id}}

\* C19: subjects are independent: a step of a request of one subject, in
\* any interleaving, creates, closes or modifies no row of another subject.
C19_SubjectsIndependent ==
    [][\A p \in Procs :
          procs'[p] # procs[p] =>
              \A u \in Users \ {procs'[p].user} :
                  RowsOf(db', u) = RowsOf(db, u)]_vars

\* the request of user 2 arrived after that of user 1 and has entered, while
\* the request of user 1 has closed its row and not yet sent the bill
C19_Witness ==
    /\ procs[1].user = 1 /\ procs[1].pc = "mail"
    /\ procs[2].user = 2 /\ procs[2].outcome = "entered"
    /\ procs[1].ts < procs[2].ts
    /\ Len(db) = 2
    /\ db[1].exit_timestamp = Some(procs[1].ts)
    /\ db[2].user_id = 2 /\ db[2].is_entry_only

\* C20: every paid row is closed: pay_bill never marks a row that still
\* awaits its exit sample as paid.
C20_PaidImpliesClosed ==
    \A i \in Ids(db) : db[i].paid => ~db[i].is_entry_only

\* C21: paid is monotone: once pay_bill has set the paid flag of a row, no
\* later location sample or pay_bill call sets it back to false, and a row
\* with paid = false never carries a payment timestamp.
C21_PaidMonotone ==
    [][\A i \in Ids(db) :
          /\ db[i].paid => db'[i].paid
          /\ ~db'[i].paid => db'[i].payment_timestamp = None]_vars

\* C22: a failure of the open-row lookup is not taken for the subject being
\* outside: when get_active_toll_entry fails for a subject that has an open
\* row, an in-zone sample creates no second open row and a not-in-zone
\* sample is not answered as if nothing were open.
C22_LookupFailureIsNotOutside ==
    [][(last'.lookup = "failed" /\ OpenIds(db, last'.user) # {}) =>
          /\ last'.in_zone => OpenIds(db', last'.user) = OpenIds(db, last'.user)
          /\ ~last'.in_zone => last'.outcome # "no_change"]_vars

\* the open row the lookup returns for the subject lacks an entry coordinate
Blocked(d, user_id, i) ==
    /\ (d[i].entry_lat = None \/ d[i].entry_lon = None)
    /\ d[i].user_id = user_id
    /\ Some(i) \in get_active_toll_entry(d, user_id)

\* C23: exit blocking is permanent: once the current open row of a subject
\* lacks an entry coordinate, no later request closes that row, creates a
\* new row for the subject or returns the subject to OUTSIDE; every later
\* sample of the subject is a no-op or is blocked again. Stated on every
\* step, so that it holds along every sequence of requests.
C23_BlockingIsPermanent ==
    [][\A i \in Ids(db) :
          LET u == db[i].user_id
          IN  Blocked(db, u, i) =>
                  /\ Blocked(db', u, i)
                  /\ db'[i].is_entry_only
                  /\ db'[i].exit_timestamp = None
                  /\ {j \in Ids(db') : db'[j].user_id = u} =
                         {j \in Ids(db) : db[j].user_id = u}
                  /\ OpenIds(db', u) = {i}
                  /\ (Sampled(last') /\ last'.user = u) =>
                         /\ last'.outcome \in {"no_change", "exit_blocked"}
                         /\ ~last'.mail]_vars

\* three requests on a blocked subject, the last an in-zone sample, and its
\* row, lacking only the longitude, is still the one open row
C23_Witness ==
    /\ now >= 3
    /\ Sampled(last) /\ last.in_zone /\ last.outcome = "no_change"
    /\ last.active # None
    /\ Blocked(db, last.user, Val(last.active))
    /\ db[Val(last.active)].entry_lat # None
    /\ Len(db) = 1

=============================================================================
